---- MODULE Spec2Model ----
(***************************************************************************)
(* Model of the calculation engine of the expense tracker                  *)
(* (calc-engine/src/statistics.cpp): StatisticsCalculator's static         *)
(* functions, each called once on inputs drawn from bounded sets.          *)
(*                                                                         *)
(* Numbers.  The engine computes in `double`.  A double is modelled as a   *)
(* binary floating-point number with a significand of MantBits bits,       *)
(* rounded to nearest, ties to even, as IEEE-754 arithmetic rounds.  A     *)
(* number x is stored as the integer x * 2^FracBits, so the smallest       *)
(* positive number is 2^-FracBits and results below that spacing round     *)
(* onto the grid (gradual underflow).  Infinities and NaN are not          *)
(* modelled: the inputs are finite and too small to overflow.              *)
(***************************************************************************)
EXTENDS Integers, Sequences, FiniteSets, TLC

\* Bits of significand of the modelled floating-point format.
MantBits == 5
\* Bits after the binary point of the stored integers.
FracBits == MantBits + 1
\* Longest observation sequence handed to a one-sequence function.
MaxLen == 4
\* Longest sequence handed to correlation, on either side.
CorrMaxLen == 3
\* Longest list of bucket sizes handed to monthly_totals.
MaxBuckets == 3

(***************************************************************************)
(* Floating-point arithmetic                                               *)
(***************************************************************************)
Abs(x) == IF x < 0 THEN -x ELSE x

RECURSIVE BitLen(_)
\* Number of binary digits of n >= 0.
BitLen(n) == IF n = 0 THEN 0 ELSE 1 + BitLen(n \div 2)

RECURSIVE TrailingZeros(_)
\* Number of trailing zero bits of n /= 0.
TrailingZeros(n) == IF n % 2 = 1 THEN 0 ELSE 1 + TrailingZeros(n \div 2)

\* The odd factor of n /= 0, signed: n = Mant(n) * 2^TrailingZeros(Abs(n)).
Mant(n) == n \div (2 ^ TrailingZeros(Abs(n)))

\* a/d (a >= 0, d > 0, in grid units) rounded to the nearest number with at
\* most MantBits significant bits, ties to the even significand.
RoundMag(a, d) ==
    LET q   == a \div d
        s   == IF BitLen(q) > MantBits THEN BitLen(q) - MantBits ELSE 0
        du  == d * (2 ^ s)
        c   == a \div du
        rem == a - c * du
        up  == (rem > du - rem) \/ (rem = du - rem /\ c % 2 = 1)
    IN  (IF up THEN c + 1 ELSE c) * (2 ^ s)

\* The rational n/d (d > 0), in grid units, rounded to a double.
RoundRat(n, d) == IF n < 0 THEN -RoundMag(-n, d) ELSE RoundMag(n, d)

\* A numeric literal n/d of the source, converted to the nearest double.
Lit(n, d) == RoundRat(n * (2 ^ FracBits), d)

\* static_cast<double>(i) of an integer i.
FromInt(i) == RoundRat(i * (2 ^ FracBits), 1)

\* a + b and a - b in double arithmetic.
FAdd(a, b) == RoundRat(a + b, 1)
FSub(a, b) == RoundRat(a - b, 1)

\* a * b in double arithmetic.
FMul(a, b) ==
    IF a = 0 \/ b = 0 THEN 0
    ELSE LET e == TrailingZeros(Abs(a)) + TrailingZeros(Abs(b)) - FracBits
             m == Mant(a) * Mant(b)
         IN  IF e >= 0 THEN RoundRat(m * (2 ^ e), 1)
             ELSE RoundRat(m, 2 ^ (-e))

\* a / b in double arithmetic, b /= 0.
FDiv(a, b) ==
    IF a = 0 THEN 0
    ELSE LET e  == TrailingZeros(Abs(a)) - TrailingZeros(Abs(b)) + FracBits
             ma == IF b < 0 THEN -Mant(a) ELSE Mant(a)
             mb == Abs(Mant(b))
         IN  IF e >= 0 THEN RoundRat(ma * (2 ^ e), mb)
             ELSE RoundRat(ma, mb * (2 ^ (-e)))

RECURSIVE ISqrtBetween(_, _, _)
\* The largest r in lo..hi with r*r <= n.
ISqrtBetween(n, lo, hi) ==
    IF lo = hi THEN lo
    ELSE LET mid == (lo + hi + 1) \div 2
         IN  IF mid * mid <= n THEN ISqrtBetween(n, mid, hi)
             ELSE ISqrtBetween(n, lo, mid - 1)

\* std::sqrt(a) in double arithmetic, a >= 0.
FSqrt(a) ==
    LET n  == a * (2 ^ FracBits)
        r0 == ISqrtBetween(n, 0, 2 ^ 15)
        s  == IF BitLen(r0) > MantBits THEN BitLen(r0) - MantBits ELSE 0
        u  == 2 ^ s
        c  == r0 \div u
        lo == c * u
        up == IF s = 0 THEN n > lo * lo + lo
              ELSE LET mid == lo + (u \div 2)
                   IN  n > mid * mid \/ (n = mid * mid /\ c % 2 = 1)
    IN  (IF up THEN c + 1 ELSE c) * u

\* std::floor and std::ceil of a double, as an integer.
FloorInt(a) == a \div (2 ^ FracBits)
CeilInt(a) == -((-a) \div (2 ^ FracBits))

(***************************************************************************)
(* Sequences of doubles                                                    *)
(***************************************************************************)
RECURSIVE Insert(_, _)
\* x put into the ascending sequence s before the first larger element.
Insert(s, x) ==
    IF s = << >> THEN << x >>
    ELSE IF x < Head(s) THEN << x >> \o s
    ELSE << Head(s) >> \o Insert(Tail(s), x)

RECURSIVE Sort(_)
\* std::sort(data.begin(), data.end()): the elements in ascending order.
Sort(s) == IF s = << >> THEN << >> ELSE Insert(Sort(Tail(s)), Head(s))

RECURSIVE Accumulate(_, _)
\* std::accumulate(first, last, init): left to right, from init.
Accumulate(s, init) ==
    IF s = << >> THEN init ELSE Accumulate(Tail(s), FAdd(init, Head(s)))

\* All sequences over S of length lo..hi.
SeqsOf(S, lo, hi) == UNION { [1..n -> S] : n \in lo..hi }

(***************************************************************************)
(* Basic statistics                                                        *)
(***************************************************************************)
sum(data) == IF data = << >> THEN 0 ELSE Accumulate(data, 0)

mean(data) ==
    IF data = << >> THEN 0 ELSE FDiv(sum(data), FromInt(Len(data)))

\* median with the sort lost: the central elements of data as passed.
median_Unsorted(data) ==
    IF data = << >> THEN 0
    ELSE LET n == Len(data)
         IN  IF n % 2 = 0
             THEN FDiv(FAdd(data[n \div 2], data[n \div 2 + 1]), Lit(2, 1))
             ELSE data[n \div 2 + 1]

median(data) ==
    IF data = << >> THEN 0
    ELSE LET s == Sort(data)
             n == Len(data)
         IN  IF n % 2 = 0
             THEN FDiv(FAdd(s[n \div 2], s[n \div 2 + 1]), Lit(2, 1))
             ELSE s[n \div 2 + 1]

\* The distinct values of data: the keys of the frequency map.
Keys(data) == { data[i] : i \in DOMAIN data }

\* frequency[v] after the counting loop.
Frequency(data, v) == Cardinality({ i \in DOMAIN data : data[i] = v })

\* The orders in which a std::unordered_map holding the keys of data may be
\* iterated: the standard leaves the order unspecified, so every permutation.
IterationOrders(data) ==
    { o \in [1..Cardinality(Keys(data)) -> Keys(data)] :
        \A i, j \in DOMAIN o : i /= j => o[i] /= o[j] }

RECURSIVE ModeScan(_, _, _, _)
\* The loop over the frequency map, in iteration order `order`.
ModeScan(data, order, max_count, mode_val) ==
    IF order = << >> THEN mode_val
    ELSE IF Frequency(data, Head(order)) > max_count
    THEN ModeScan(data, Tail(order), Frequency(data, Head(order)), Head(order))
    ELSE ModeScan(data, Tail(order), max_count, mode_val)

\* mode(data) when the frequency map iterates in `order`.
mode(data, order) ==
    IF data = << >> THEN 0 ELSE ModeScan(data, order, 0, data[1])

\* Every value mode(data) may return.
ModeOutcomes(data) == { mode(data, order) : order \in IterationOrders(data) }

RECURSIVE SumSq(_, _, _)
\* The loop adding the squared deviations from m to sum_sq.
SumSq(s, m, sum_sq) ==
    IF s = << >> THEN sum_sq
    ELSE LET diff == FSub(Head(s), m)
         IN  SumSq(Tail(s), m, FAdd(sum_sq, FMul(diff, diff)))

variance(data) ==
    IF Len(data) < 2 THEN 0
    ELSE FDiv(SumSq(data, mean(data), 0), FromInt(Len(data)))

stddev(data) == FSqrt(variance(data))

\* What a call leaves its caller with: a returned value, or the exception
\* std::invalid_argument propagating out of the call.
Returned(v) == [thrown |-> FALSE, value |-> v]
InvalidArgument == [thrown |-> TRUE, value |-> 0]

\* The interpolation at fractional rank p/100 * (n-1) of the sorted copy s,
\* for 0 <= p <= 100.
Interpolate(s, p) ==
    IF p = 0 THEN s[1]
    ELSE IF p = Lit(100, 1) THEN s[Len(s)]
    ELSE LET index  == FMul(FDiv(p, Lit(100, 1)), FromInt(Len(s) - 1))
             lower  == FloorInt(index)
             upper  == CeilInt(index)
             weight == FSub(index, FromInt(lower))
         IN  IF lower = upper THEN s[lower + 1]
             ELSE FAdd(FMul(s[lower + 1], FSub(Lit(1, 1), weight)),
                       FMul(s[upper + 1], weight))

\* percentile with the upper range check lost: p above 100 is treated as 100.
percentile_Clamped(data, p) ==
    IF data = << >> THEN Returned(0)
    ELSE IF p < 0 THEN InvalidArgument
    ELSE Returned(Interpolate(Sort(data),
                              IF p > Lit(100, 1) THEN Lit(100, 1) ELSE p))

\* percentile with the sort lost: the interpolation reads data as passed.
percentile_Unsorted(data, p) ==
    IF data = << >> THEN Returned(0)
    ELSE IF p < 0 \/ p > Lit(100, 1) THEN InvalidArgument
    ELSE Returned(Interpolate(data, p))

percentile(data, p) ==
    IF data = << >> THEN Returned(0)
    ELSE IF p < 0 \/ p > Lit(100, 1) THEN InvalidArgument
    ELSE Returned(Interpolate(Sort(data), p))

(***************************************************************************)
(* Comprehensive statistics                                                *)
(***************************************************************************)
\* A default-constructed StatisticsResult.
ZeroStatistics ==
    [sum |-> 0, mean |-> 0, median |-> 0, mode |-> 0, variance |-> 0,
     stddev |-> 0, min |-> 0, max |-> 0, range |-> 0, q1 |-> 0, q3 |-> 0,
     iqr |-> 0, count |-> 0]

\* The minimum taken to be the first element, as if data were sorted.
MinElement_First(data) == data[1]

\* *std::minmax_element(...).first and .second.
MinElement(data) == CHOOSE v \in Keys(data) : \A w \in Keys(data) : v <= w
MaxElement(data) == CHOOSE v \in Keys(data) : \A w \in Keys(data) : w <= v

\* calculate_all(data) when its call of mode(data) returns mode_val.
calculate_all(data, mode_val) ==
    IF data = << >> THEN ZeroStatistics
    ELSE LET total == sum(data)
             var   == variance(data)
             lo    == MinElement(data)
             hi    == MaxElement(data)
             q1    == percentile(data, Lit(25, 1)).value
             q3    == percentile(data, Lit(75, 1)).value
         IN  [sum |-> total,
              mean |-> FDiv(total, FromInt(Len(data))),
              median |-> median(data),
              mode |-> mode_val,
              variance |-> var,
              stddev |-> FSqrt(var),
              min |-> lo, max |-> hi, range |-> FSub(hi, lo),
              q1 |-> q1, q3 |-> q3, iqr |-> FSub(q3, q1),
              count |-> Len(data)]

(***************************************************************************)
(* Moving averages                                                         *)
(***************************************************************************)
\* A MovingAverageResult.
MovingAverageResult(values, current_average, window_size) ==
    [values |-> values, current_average |-> current_average,
     window_size |-> window_size]

RECURSIVE Slide(_, _, _, _, _)
\* The sliding loop from zero-based index i on: the element leaving the
\* window is subtracted from window_sum, the one entering it is added.
Slide(data, window, i, window_sum, values) ==
    IF i >= Len(data) THEN values
    ELSE LET next_sum == FAdd(FSub(window_sum, data[i - window + 1]), data[i + 1])
         IN  Slide(data, window, i + 1, next_sum,
                   Append(values, FDiv(next_sum, FromInt(window))))

moving_average(data, window) ==
    IF data = << >> \/ window <= 0 THEN MovingAverageResult(<< >>, 0, window)
    ELSE LET w      == IF window > Len(data) THEN Len(data) ELSE window
             first  == Accumulate(SubSeq(data, 1, w), 0)
             values == Slide(data, w, w, first, << FDiv(first, FromInt(w)) >>)
         IN  MovingAverageResult(values, values[Len(values)], w)

RECURSIVE EmaLoop_Swapped(_, _, _, _)
\* The smoothing loop with the two weights exchanged: alpha on the previous
\* value, 1 - alpha on the observation.
EmaLoop_Swapped(data, alpha, i, values) ==
    IF i >= Len(data) THEN values
    ELSE LET ema == FAdd(FMul(FSub(Lit(1, 1), alpha), data[i + 1]),
                         FMul(alpha, values[Len(values)]))
         IN  EmaLoop_Swapped(data, alpha, i + 1, Append(values, ema))

RECURSIVE EmaLoop(_, _, _, _)
\* The smoothing loop from zero-based index i on.
EmaLoop(data, alpha, i, values) ==
    IF i >= Len(data) THEN values
    ELSE LET ema == FAdd(FMul(alpha, data[i + 1]),
                         FMul(FSub(Lit(1, 1), alpha), values[Len(values)]))
         IN  EmaLoop(data, alpha, i + 1, Append(values, ema))

\* exponential_moving_average with the loop started at index 0 after the
\* seed was pushed.
exponential_moving_average_FromZero(data, alpha) ==
    IF data = << >> \/ alpha <= 0 \/ alpha > Lit(1, 1)
    THEN MovingAverageResult(<< >>, 0, -1)
    ELSE LET values == EmaLoop(data, alpha, 0, << data[1] >>)
         IN  MovingAverageResult(values, values[Len(values)], -1)

exponential_moving_average(data, alpha) ==
    IF data = << >> \/ alpha <= 0 \/ alpha > Lit(1, 1)
    THEN MovingAverageResult(<< >>, 0, -1)
    ELSE LET values == EmaLoop(data, alpha, 1, << data[1] >>)
         IN  MovingAverageResult(values, values[Len(values)], -1)

(***************************************************************************)
(* Correlation                                                             *)
(***************************************************************************)
RECURSIVE CorrLoop(_, _, _, _, _, _)
\* The synchronized pass from one-based index i on: the covariance numerator
\* and each sequence's sum of squared deviations.
CorrLoop(x, y, mean_x, mean_y, i, acc) ==
    IF i > Len(x) THEN acc
    ELSE LET dx == FSub(x[i], mean_x)
             dy == FSub(y[i], mean_y)
         IN  CorrLoop(x, y, mean_x, mean_y, i + 1,
                      [numerator |-> FAdd(acc.numerator, FMul(dx, dy)),
                       sum_sq_x |-> FAdd(acc.sum_sq_x, FMul(dx, dx)),
                       sum_sq_y |-> FAdd(acc.sum_sq_y, FMul(dy, dy))])

\* The strength label of a coefficient.
Strength(r) ==
    IF Abs(r) >= Lit(8, 10) THEN "very_strong"
    ELSE IF Abs(r) >= Lit(6, 10) THEN "strong"
    ELSE IF Abs(r) >= Lit(4, 10) THEN "moderate"
    ELSE IF Abs(r) >= Lit(2, 10) THEN "weak"
    ELSE "very_weak"

\* The direction label of a coefficient.
Direction(r) ==
    IF r > Lit(1, 10) THEN "positive"
    ELSE IF r < -Lit(1, 10) THEN "negative"
    ELSE "none"

\* The Pearson coefficient of two sequences of one length >= 2.
Pearson(x, y) ==
    LET acc == CorrLoop(x, y, mean(x), mean(y), 1,
                        [numerator |-> 0, sum_sq_x |-> 0, sum_sq_y |-> 0])
        denominator == FSqrt(FMul(acc.sum_sq_x, acc.sum_sq_y))
    IN  IF denominator = 0 THEN 0 ELSE FDiv(acc.numerator, denominator)

\* correlation with the minimum length off by one: one point is accepted.
correlation_OnePoint(x, y) ==
    IF Len(x) /= Len(y) \/ Len(x) < 1
    THEN [pearson_coefficient |-> 0, r_squared |-> 0,
          strength |-> "invalid", direction |-> "none"]
    ELSE LET r == Pearson(x, y)
         IN  [pearson_coefficient |-> r, r_squared |-> FMul(r, r),
              strength |-> Strength(r), direction |-> Direction(r)]

correlation(x, y) ==
    IF Len(x) /= Len(y) \/ Len(x) < 2
    THEN [pearson_coefficient |-> 0, r_squared |-> 0,
          strength |-> "invalid", direction |-> "none"]
    ELSE LET r == Pearson(x, y)
         IN  [pearson_coefficient |-> r, r_squared |-> FMul(r, r),
              strength |-> Strength(r), direction |-> Direction(r)]

(***************************************************************************)
(* Outlier detection                                                       *)
(***************************************************************************)
RECURSIVE OutlierScan_Inclusive(_, _, _, _, _)
\* The scan with inclusive comparisons: an element on a bound is pushed too.
OutlierScan_Inclusive(data, lower_bound, upper_bound, i, outliers) ==
    IF i >= Len(data) THEN outliers
    ELSE OutlierScan_Inclusive(data, lower_bound, upper_bound, i + 1,
                     IF data[i + 1] <= lower_bound \/ data[i + 1] >= upper_bound
                     THEN Append(outliers, i) ELSE outliers)

RECURSIVE OutlierScan(_, _, _, _, _)
\* The scan from zero-based index i on, pushing the indices out of bounds.
OutlierScan(data, lower_bound, upper_bound, i, outliers) ==
    IF i >= Len(data) THEN outliers
    ELSE OutlierScan(data, lower_bound, upper_bound, i + 1,
                     IF data[i + 1] < lower_bound \/ data[i + 1] > upper_bound
                     THEN Append(outliers, i) ELSE outliers)

\* detect_outliers with the minimum size off by one: 3 observations pass.
detect_outliers_MinThree(data, threshold) ==
    IF Len(data) < 3 THEN << >>
    ELSE LET q1  == percentile(data, Lit(25, 1)).value
             q3  == percentile(data, Lit(75, 1)).value
             iqr == FSub(q3, q1)
         IN  OutlierScan(data, FSub(q1, FMul(threshold, iqr)),
                         FAdd(q3, FMul(threshold, iqr)), 0, << >>)

detect_outliers(data, threshold) ==
    IF Len(data) < 4 THEN << >>
    ELSE LET q1  == percentile(data, Lit(25, 1)).value
             q3  == percentile(data, Lit(75, 1)).value
             iqr == FSub(q3, q1)
         IN  OutlierScan(data, FSub(q1, FMul(threshold, iqr)),
                         FAdd(q3, FMul(threshold, iqr)), 0, << >>)

(***************************************************************************)
(* Monthly totals                                                          *)
(***************************************************************************)
RECURSIVE MonthLoop(_, _, _, _, _)
\* The inner loop: day d of a month of `days` days, amounts read from
\* zero-based idx on; yields the month's total and the next idx.
MonthLoop(amounts, days, d, idx, month_total) ==
    IF d < days /\ idx < Len(amounts)
    THEN MonthLoop(amounts, days, d + 1, idx + 1,
                   FAdd(month_total, amounts[idx + 1]))
    ELSE [total |-> month_total, idx |-> idx]

RECURSIVE MonthsLoop(_, _, _, _)
\* The outer loop over days_in_months: one total pushed per month.
MonthsLoop(amounts, days_in_months, idx, totals) ==
    IF days_in_months = << >> THEN totals
    ELSE LET m == MonthLoop(amounts, Head(days_in_months), 0, idx, 0)
         IN  MonthsLoop(amounts, Tail(days_in_months), m.idx,
                        Append(totals, m.total))

monthly_totals(amounts, days_in_months) ==
    IF amounts = << >> \/ days_in_months = << >> THEN << >>
    ELSE MonthsLoop(amounts, days_in_months, 0, << >>)

(***************************************************************************)
(* The calls                                                               *)
(***************************************************************************)
\* The least number of observations detect_outliers works on.
MinOutlierData == 4

\* Observations handed to the one-sequence functions.
Observations ==
    { Lit(0, 1), Lit(1, 1), Lit(2 ^ MantBits - 2, 1), Lit(2 ^ MantBits - 1, 1) }
\* Observations handed to calculate_all: 0 and three neighbouring doubles.
SummaryObservations ==
    { Lit(0, 1), Lit(2 ^ MantBits - 3, 1), Lit(2 ^ MantBits - 2, 1),
      Lit(2 ^ MantBits - 1, 1) }
\* Percentile arguments, in and out of [0, 100].
Percentiles ==
    { Lit(-1, 1), Lit(0, 1), Lit(10, 1), Lit(25, 1), Lit(50, 1), Lit(75, 1),
      Lit(100, 1), Lit(104, 1) }
\* Requested windows, from below 1 to above the longest input.
Windows == -1 .. MaxLen + 1
\* Smoothing factors, in and out of (0, 1].
Alphas == { Lit(-1, 2), Lit(0, 1), Lit(3, 10), Lit(1, 2), Lit(1, 1), Lit(3, 2) }
\* IQR multipliers.
Thresholds == { Lit(-1, 1), Lit(0, 1), Lit(3, 2) }
\* Observations handed to correlation.
CorrObservations == { Lit(0, 1), Lit(1, 1), Lit(2 ^ (MantBits - 1) - 1, 2) }
\* Daily amounts and month lengths handed to monthly_totals.
Amounts == { Lit(1, 1), Lit(2, 1) }
Days == 0 .. 2

VARIABLES
    op,     \* the function called, "idle" before the call
    data,   \* its first sequence argument
    other,  \* its second sequence argument, << >> when it has none
    arg,    \* its scalar argument, 0 when it has none
    res     \* what the call returned (or threw)

vars == << op, data, other, arg, res >>

Init ==
    /\ op = "idle"
    /\ data = << >>
    /\ other = << >>
    /\ arg = 0
    /\ res = 0

\* Each action is one call of one function: the caller is idle, the
\* arguments are recorded, and r is what the function yields on them.
CallPercentile(d, p, r) ==
    /\ op = "idle"
    /\ op' = "percentile"
    /\ data' = d
    /\ other' = << >>
    /\ arg' = p
    /\ res' = r

CallMode(d, r) ==
    /\ op = "idle"
    /\ op' = "mode"
    /\ data' = d
    /\ other' = << >>
    /\ arg' = 0
    /\ res' = r

CallSum(d, r) ==
    /\ op = "idle"
    /\ op' = "sum"
    /\ data' = d
    /\ other' = << >>
    /\ arg' = 0
    /\ res' = r

CallMean(d, r) ==
    /\ op = "idle"
    /\ op' = "mean"
    /\ data' = d
    /\ other' = << >>
    /\ arg' = 0
    /\ res' = r

CallMedian(d, r) ==
    /\ op = "idle"
    /\ op' = "median"
    /\ data' = d
    /\ other' = << >>
    /\ arg' = 0
    /\ res' = r

CallVariance(d, r) ==
    /\ op = "idle"
    /\ op' = "variance"
    /\ data' = d
    /\ other' = << >>
    /\ arg' = 0
    /\ res' = r

CallStddev(d, r) ==
    /\ op = "idle"
    /\ op' = "stddev"
    /\ data' = d
    /\ other' = << >>
    /\ arg' = 0
    /\ res' = r

CallCalculateAll(d, r) ==
    /\ op = "idle"
    /\ op' = "calculate_all"
    /\ data' = d
    /\ other' = << >>
    /\ arg' = 0
    /\ res' = r

CallMovingAverage(d, window, r) ==
    /\ op = "idle"
    /\ op' = "moving_average"
    /\ data' = d
    /\ other' = << >>
    /\ arg' = window
    /\ res' = r

CallExponentialMovingAverage(d, alpha, r) ==
    /\ op = "idle"
    /\ op' = "exponential_moving_average"
    /\ data' = d
    /\ other' = << >>
    /\ arg' = alpha
    /\ res' = r

CallCorrelation(x, y, r) ==
    /\ op = "idle"
    /\ op' = "correlation"
    /\ data' = x
    /\ other' = y
    /\ arg' = 0
    /\ res' = r

CallDetectOutliers(d, threshold, r) ==
    /\ op = "idle"
    /\ op' = "detect_outliers"
    /\ data' = d
    /\ other' = << >>
    /\ arg' = threshold
    /\ res' = r

CallMonthlyTotals(amounts, days_in_months, r) ==
    /\ op = "idle"
    /\ op' = "monthly_totals"
    /\ data' = amounts
    /\ other' = days_in_months
    /\ arg' = 0
    /\ res' = r

\* The calls of each function, on every input of the bounded sets.
PercentileNext ==
    \E d \in SeqsOf(Observations, 0, MaxLen), p \in Percentiles :
        CallPercentile(d, p, percentile(d, p))

ModeNext ==
    \E d \in SeqsOf(Observations, 0, MaxLen) :
        \E order \in IterationOrders(d) :
            CallMode(d, mode(d, order))

SumNext ==
    \E d \in SeqsOf(Observations, 0, MaxLen) : CallSum(d, sum(d))

MeanNext ==
    \E d \in SeqsOf(Observations, 0, MaxLen) : CallMean(d, mean(d))

MedianNext ==
    \E d \in SeqsOf(Observations, 0, MaxLen) : CallMedian(d, median(d))

VarianceNext ==
    \E d \in SeqsOf(Observations, 0, MaxLen) : CallVariance(d, variance(d))

StddevNext ==
    \E d \in SeqsOf(Observations, 0, MaxLen) : CallStddev(d, stddev(d))

CalculateAllNext ==
    \E d \in SeqsOf(SummaryObservations, 0, MaxLen) :
        \E mode_val \in ModeOutcomes(d) :
            CallCalculateAll(d, calculate_all(d, mode_val))

MovingAverageNext ==
    \E d \in SeqsOf(Observations, 0, MaxLen), window \in Windows :
        CallMovingAverage(d, window, moving_average(d, window))

ExponentialMovingAverageNext ==
    \E d \in SeqsOf(Observations, 0, MaxLen), alpha \in Alphas :
        CallExponentialMovingAverage(d, alpha,
                                     exponential_moving_average(d, alpha))

CorrelationNext ==
    \E x \in SeqsOf(CorrObservations, 0, CorrMaxLen),
       y \in SeqsOf(CorrObservations, 0, CorrMaxLen) :
        CallCorrelation(x, y, correlation(x, y))

DetectOutliersNext ==
    \E d \in SeqsOf(Observations, 0, MaxLen), threshold \in Thresholds :
        CallDetectOutliers(d, threshold, detect_outliers(d, threshold))

MonthlyTotalsNext ==
    \E amounts \in SeqsOf(Amounts, 0, MaxLen),
       days_in_months \in SeqsOf(Days, 0, MaxBuckets) :
        CallMonthlyTotals(amounts, days_in_months,
                          monthly_totals(amounts, days_in_months))

Next ==
    \/ SumNext
    \/ MeanNext
    \/ MedianNext
    \/ VarianceNext
    \/ StddevNext
    \/ PercentileNext
    \/ ModeNext
    \/ CalculateAllNext
    \/ MovingAverageNext
    \/ ExponentialMovingAverageNext
    \/ CorrelationNext
    \/ DetectOutliersNext
    \/ MonthlyTotalsNext

\* The calls of the functions that answer a degenerate input with a zero or
\* empty result, on data of up to MinOutlierData observations.
TolerantNext ==
    \/ \E d \in SeqsOf(Observations, 0, MinOutlierData) : CallSum(d, sum(d))
    \/ \E d \in SeqsOf(Observations, 0, MinOutlierData) : CallMean(d, mean(d))
    \/ \E d \in SeqsOf(Observations, 0, MinOutlierData) :
           CallMedian(d, median(d))
    \/ \E d \in SeqsOf(Observations, 0, MinOutlierData) :
           \E order \in IterationOrders(d) : CallMode(d, mode(d, order))
    \/ \E d \in SeqsOf(Observations, 0, MinOutlierData) :
           CallVariance(d, variance(d))
    \/ \E d \in SeqsOf(Observations, 0, MinOutlierData) :
           CallStddev(d, stddev(d))
    \/ \E d \in SeqsOf(Observations, 0, MinOutlierData) :
           \E mode_val \in ModeOutcomes(d) :
               CallCalculateAll(d, calculate_all(d, mode_val))
    \/ \E d \in SeqsOf(Observations, 0, MinOutlierData), window \in Windows :
           CallMovingAverage(d, window, moving_average(d, window))
    \/ \E d \in SeqsOf(Observations, 0, MinOutlierData), alpha \in Alphas :
           CallExponentialMovingAverage(d, alpha,
                                        exponential_moving_average(d, alpha))
    \/ \E d \in SeqsOf(Observations, 0, MinOutlierData),
          threshold \in Thresholds :
           CallDetectOutliers(d, threshold, detect_outliers(d, threshold))

\* Every function of the engine.
Spec == Init /\ [][Next]_vars

\* The calls of the tolerant functions.
TolerantSpec == Init /\ [][TolerantNext]_vars

\* One specification per function: the calls of that function alone.
MedianSpec == Init /\ [][MedianNext]_vars
PercentileSpec == Init /\ [][PercentileNext]_vars
ModeSpec == Init /\ [][ModeNext]_vars
CalculateAllSpec == Init /\ [][CalculateAllNext]_vars
MovingAverageSpec == Init /\ [][MovingAverageNext]_vars
ExponentialMovingAverageSpec == Init /\ [][ExponentialMovingAverageNext]_vars
CorrelationSpec == Init /\ [][CorrelationNext]_vars
DetectOutliersSpec == Init /\ [][DetectOutliersNext]_vars
MonthlyTotalsSpec == Init /\ [][MonthlyTotalsNext]_vars

(***************************************************************************)
(* The command-line front end (main without option arguments)              *)
(***************************************************************************)
\* The window main asks moving_average for is the lesser of this and n.
DefaultWindow == 7

\* A double written by a stream in fixed notation with 2 decimals: the
\* nearest number of hundredths, an exact tie going to the even digit.
Fixed2(v) ==
    LET n    == Abs(v) * 100
        d    == 2 ^ FracBits
        q    == n \div d
        rem  == n - q * d
        up   == (2 * rem > d) \/ (2 * rem = d /\ q % 2 = 1)
        cents == IF up THEN q + 1 ELSE q
    IN  IF v < 0 THEN -cents ELSE cents

\* StatisticsResult::to_json.
StatisticsToJson(stats) ==
    [sum |-> Fixed2(stats.sum), mean |-> Fixed2(stats.mean),
     median |-> Fixed2(stats.median), mode |-> Fixed2(stats.mode),
     variance |-> Fixed2(stats.variance), stddev |-> Fixed2(stats.stddev),
     min |-> Fixed2(stats.min), max |-> Fixed2(stats.max),
     range |-> Fixed2(stats.range), q1 |-> Fixed2(stats.q1),
     q3 |-> Fixed2(stats.q3), iqr |-> Fixed2(stats.iqr),
     count |-> stats.count]

\* MovingAverageResult::to_json.
MovingAverageToJson(ma) ==
    [window_size |-> ma.window_size,
     current_average |-> Fixed2(ma.current_average),
     values |-> [i \in DOMAIN ma.values |-> Fixed2(ma.values[i])]]

\* The combined success object.
create_json_output(stats, sma, ema, outliers) ==
    [success |-> TRUE,
     statistics |-> StatisticsToJson(stats),
     simple_moving_average |-> MovingAverageToJson(sma),
     exponential_moving_average |-> MovingAverageToJson(ema),
     outliers |-> outliers,
     outlier_count |-> Len(outliers)]

\* The error object; the message is its words and numbers in order.
create_error_json(message) == [success |-> FALSE, error |-> message]

\* A whitespace-separated token of standard input: a decimal integer, or a
\* word that is no number.
Number(k) == [parses |-> TRUE, value |-> k]
Garbage == [parses |-> FALSE, value |-> 0]

\* The first token: what main reads the count from.
CountTokens == { Garbage } \cup { Number(k) : k \in -1 .. DefaultWindow + 1 }
\* The tokens after it: what main reads the values from.
ValueTokens == { Garbage, Number(1), Number(2 ^ MantBits - 1) }

\* The contents of standard input: nothing, or a first token followed by
\* value tokens, up to as many as the count asks for (up to one when it asks
\* for none).
Stdins ==
    { << >> } \cup
    UNION { { << c >> \o v :
                v \in SeqsOf(ValueTokens, 0,
                             IF c.value < 1 THEN 1 ELSE c.value) } :
            c \in CountTokens }

\* std::cin >> value, for a token that parses.
ParseDouble(token) == FromInt(token.value)

\* The lesser of DefaultWindow and n, with the clamp lost.
MainWindow_Unclamped(n) == n

\* std::min(7, n).
MainWindow(n) == IF DefaultWindow < n THEN DefaultWindow ELSE n

\* What a run has written to standard output, and its exit status (-1 while
\* it runs).
Running == [stdout |-> << >>, status |-> -1]
Exited(object, status) == [stdout |-> << object >>, status |-> status]

\* main is entered: nothing read, nothing written.
MainInit ==
    /\ op = "main"
    /\ data = << >>
    /\ other \in Stdins
    /\ arg = 0
    /\ res = Running

\* return 1 after the error object was written.
MainFail(message) ==
    /\ op' = "exit"
    /\ res' = Exited(create_error_json(message), 1)
    /\ UNCHANGED << data, other, arg >>

\* std::cin >> n and the check n <= 0.
MainReadCount ==
    /\ op = "main"
    /\ IF other = << >> \/ ~other[1].parses
       THEN MainFail(<< "Failed to read number of values" >>)
       ELSE IF other[1].value <= 0
       THEN MainFail(<< "Number of values must be positive" >>)
       ELSE /\ op' = "read_values"
            /\ arg' = other[1].value
            /\ UNCHANGED << data, other, res >>

\* One iteration of the reading loop: std::cin >> value, token i + 2 of
\* standard input for the zero-based index i.
MainReadValue ==
    /\ op = "read_values"
    /\ Len(data) < arg
    /\ LET i == Len(data)
       IN  IF i + 2 > Len(other) \/ ~other[i + 2].parses
           THEN MainFail(<< "Failed to read value at index", i >>)
           ELSE /\ data' = Append(data, ParseDouble(other[i + 2]))
                /\ UNCHANGED << op, other, arg, res >>

\* The loop is over: the four computations, the success object, return 0.
MainCompute(object) ==
    /\ op = "read_values"
    /\ Len(data) = arg
    /\ op' = "exit"
    /\ res' = Exited(object, 0)
    /\ UNCHANGED << data, other, arg >>

\* MainCompute for every value the call of mode may return.
MainReport ==
    \E mode_val \in ModeOutcomes(data) :
        MainCompute(create_json_output(
            calculate_all(data, mode_val),
            moving_average(data, MainWindow(arg)),
            exponential_moving_average(data, Lit(3, 10)),
            detect_outliers(data, Lit(3, 2))))

MainNext ==
    \/ MainReadCount
    \/ MainReadValue
    \/ MainReport

\* The runs of main.
MainSpec == MainInit /\ [][MainNext]_vars

(***************************************************************************)
(* Properties                                                              *)
(***************************************************************************)
\* The k-th smallest element of xs (k in 1..Len(xs)), by counting.
NthSmallest(xs, k) ==
    CHOOSE v \in Keys(xs) :
        /\ Cardinality({ i \in DOMAIN xs : xs[i] < v }) < k
        /\ k <= Cardinality({ i \in DOMAIN xs : xs[i] <= v })

\* The ascending-sorted copy of xs.
SortedCopy(xs) == [k \in 1..Len(xs) |-> NthSmallest(xs, k)]

\* p lies outside [0, 100].
OutOfRange(p) == p < 0 \/ p > Lit(100, 1)

\* C1 as stated: for every data, of any length, and every p < 0 or p > 100,
\* percentile(data, p) fails with invalid_argument instead of returning.
C1_Original ==
    (op = "percentile" /\ OutOfRange(arg)) => res.thrown

\* C1 as amended: for every nonempty data and every p < 0 or p > 100,
\* percentile(data, p) fails with invalid_argument, which reaches the caller;
\* for empty data it returns 0 whatever p is.
C1_RejectsOutOfRange ==
    op = "percentile" =>
        /\ (data /= << >> /\ OutOfRange(arg)) => res = InvalidArgument
        /\ data = << >> => res = Returned(0)

C1_Witness ==
    /\ op = "percentile"
    /\ Len(data) >= 2
    /\ arg > Lit(100, 1)
    /\ res.thrown

\* C7: for nonempty data of length n and p in [0, 100], percentile(data, p)
\* is the linear interpolation of the ascending-sorted copy s at rank
\* r = p/100 * (n-1): s[r] when r is an integer, else
\* s[floor r]*(1-w) + s[ceil r]*w with w = r - floor r; p = 0 gives the
\* minimum, p = 100 the maximum, and the indices used lie in 0..n-1.
C7_Interpolation ==
    (op = "percentile" /\ data /= << >> /\ ~OutOfRange(arg)) =>
        LET n  == Len(data)
            s  == SortedCopy(data)
            r  == FMul(FDiv(arg, Lit(100, 1)), FromInt(n - 1))
            fl == FloorInt(r)
            ce == CeilInt(r)
            w  == FSub(r, FromInt(fl))
        IN  /\ ~res.thrown
            /\ fl \in 0 .. n - 1
            /\ ce \in 0 .. n - 1
            /\ res.value =
                  IF fl = ce THEN s[fl + 1]
                  ELSE FAdd(FMul(s[fl + 1], FSub(Lit(1, 1), w)),
                            FMul(s[ce + 1], w))
            /\ arg = 0 => \A i \in DOMAIN data : res.value <= data[i]
            /\ arg = Lit(100, 1) => \A i \in DOMAIN data : res.value >= data[i]
            /\ arg \in {0, Lit(100, 1)} => res.value \in Keys(data)

C7_Witness ==
    /\ op = "percentile"
    /\ Len(data) >= 3
    /\ data /= SortedCopy(data)
    /\ arg > 0
    /\ arg < Lit(100, 1)
    /\ ~res.thrown
    /\ res.value \notin Keys(data)

\* C3: for data of at least 4 observations and every threshold,
\* detect_outliers returns, in strictly increasing order, exactly the
\* zero-based indices i with data[i] < Q1 - threshold*IQR or
\* data[i] > Q3 + threshold*IQR (Q1, Q3 the 25th and 75th percentile,
\* IQR = Q3 - Q1), so not the elements equal to a bound; for fewer than 4
\* observations the result is empty.
C3_Outliers ==
    op = "detect_outliers" =>
        IF Len(data) < 4 THEN res = << >>
        ELSE LET q1    == percentile(data, Lit(25, 1)).value
                 q3    == percentile(data, Lit(75, 1)).value
                 iqr   == FSub(q3, q1)
                 lower == FSub(q1, FMul(arg, iqr))
                 upper == FAdd(q3, FMul(arg, iqr))
             IN  /\ \A k \in 1 .. Len(res) - 1 : res[k] < res[k + 1]
                 /\ { res[k] : k \in DOMAIN res } =
                       { i \in 0 .. Len(data) - 1 :
                           data[i + 1] < lower \/ data[i + 1] > upper }

C3_Witness ==
    /\ op = "detect_outliers"
    /\ Len(data) >= 4
    /\ Len(res) >= 2
    /\ LET q1 == percentile(data, Lit(25, 1)).value
           q3 == percentile(data, Lit(75, 1)).value
       IN  /\ q3 > q1
           /\ \E i \in DOMAIN data :
                  /\ data[i] \in { FSub(q1, FMul(arg, FSub(q3, q1))),
                                   FAdd(q3, FMul(arg, FSub(q3, q1))) }
                  /\ \A k \in DOMAIN res : res[k] /= i - 1

\* C4: every summary calculate_all returns has range = max - min,
\* iqr = q3 - q1, count = the length of data, min and max the smallest and
\* largest element; for empty data every field, count too, is 0.
C4_Summary ==
    op = "calculate_all" =>
        IF data = << >>
        THEN /\ DOMAIN res = { "sum", "mean", "median", "mode", "variance",
                               "stddev", "min", "max", "range", "q1", "q3",
                               "iqr", "count" }
             /\ \A f \in DOMAIN res : res[f] = 0
        ELSE /\ res.range = FSub(res.max, res.min)
             /\ res.iqr = FSub(res.q3, res.q1)
             /\ res.count = Len(data)
             /\ res.min \in Keys(data)
             /\ res.max \in Keys(data)
             /\ \A i \in DOMAIN data : res.min <= data[i] /\ data[i] <= res.max

C4_Witness ==
    /\ op = "calculate_all"
    /\ Len(data) >= 3
    /\ data[1] /= res.min
    /\ data[Len(data)] /= res.max
    /\ res.range > 0
    /\ res.iqr > 0
    /\ res.iqr < res.range

\* C5: for sequences whose lengths differ or are below 2, correlation raises
\* nothing and returns coefficient 0, r_squared 0, strength "invalid",
\* direction "none".
C5_Degenerate ==
    (op = "correlation" /\ (Len(data) /= Len(other) \/ Len(data) < 2)) =>
        res = [pearson_coefficient |-> 0, r_squared |-> 0,
               strength |-> "invalid", direction |-> "none"]

C5_Witness ==
    /\ op = "correlation"
    /\ Len(data) >= 2
    /\ Len(other) >= 2
    /\ Len(data) /= Len(other)
    /\ res.strength = "invalid"

\* C10 as stated: for every nonempty data and every smoothing factor alpha,
\* exponential_moving_average(data, alpha) has as many values as data has
\* elements and its first value is data[0].
C10_Original ==
    (op = "exponential_moving_average" /\ data /= << >>) =>
        /\ Len(res.values) = Len(data)
        /\ res.values[1] = data[1]

\* C10 as amended: for every nonempty data and every alpha with
\* 0 < alpha <= 1, exponential_moving_average(data, alpha) has as many values
\* as data has elements and its first value is data[0].
C10_SeedAndLength ==
    (/\ op = "exponential_moving_average"
     /\ data /= << >>
     /\ arg > 0
     /\ arg <= Lit(1, 1)) =>
        /\ Len(res.values) = Len(data)
        /\ res.values[1] = data[1]

C10_Witness ==
    /\ op = "exponential_moving_average"
    /\ Len(data) >= 3
    /\ arg > 0
    /\ arg < Lit(1, 1)
    /\ Len(res.values) = Len(data)
    /\ res.values[1] = data[1]
    /\ res.values[Len(data)] /= data[Len(data)]

\* C2: for nonempty data of length n and window > 0, moving_average uses
\* w = min(window, n), reports window_size = w, and returns n - w + 1 values
\* whose k-th value (k = 0..n-w) is the arithmetic mean of data[k..k+w-1]
\* (the sliding sum equals the directly summed window); current_average is
\* the last value.
C2_WindowMeans ==
    (op = "moving_average" /\ data /= << >> /\ arg > 0) =>
        LET n == Len(data)
            w == IF arg < n THEN arg ELSE n
        IN  /\ res.window_size = w
            /\ Len(res.values) = n - w + 1
            /\ \A k \in 0 .. n - w :
                  res.values[k + 1] =
                      FDiv(Accumulate(SubSeq(data, k + 1, k + w), 0), FromInt(w))
            /\ res.current_average = res.values[Len(res.values)]

\* xs is a constant sequence.
IsConstant(xs) == \A i \in DOMAIN xs : xs[i] = xs[1]

\* ys is an increasing linear function of xs, and xs is not constant.
IncreasingLinear(xs, ys) ==
    \E i0, j0 \in DOMAIN xs :
        /\ xs[i0] > xs[j0]
        /\ ys[i0] > ys[j0]
        /\ \A i \in DOMAIN xs :
              (ys[i] - ys[j0]) * (xs[i0] - xs[j0]) =
                  (ys[i0] - ys[j0]) * (xs[i] - xs[j0])

\* C6: for equal-length sequences of at least 2 elements, strength is the
\* bucket of the highest of 0.8, 0.6, 0.4, 0.2 that |r| reaches, very weak
\* below 0.2; direction is positive exactly when r > 0.1, negative exactly
\* when r < -0.1, none otherwise; a constant sequence gives r = 0, very weak,
\* none; a perfectly increasing linear relation gives r = 1, very strong,
\* positive.
C6_Classification ==
    (op = "correlation" /\ Len(data) = Len(other) /\ Len(data) >= 2) =>
        LET r == res.pearson_coefficient
            a == Abs(r)
        IN  /\ res.strength =
                  IF a >= Lit(8, 10) THEN "very_strong"
                  ELSE IF a >= Lit(6, 10) THEN "strong"
                  ELSE IF a >= Lit(4, 10) THEN "moderate"
                  ELSE IF a >= Lit(2, 10) THEN "weak"
                  ELSE "very_weak"
            /\ res.direction = "positive" <=> r > Lit(1, 10)
            /\ res.direction = "negative" <=> r < -Lit(1, 10)
            /\ res.direction \in { "positive", "negative", "none" }
            /\ (IsConstant(data) \/ IsConstant(other)) =>
                  /\ r = 0
                  /\ res.strength = "very_weak"
                  /\ res.direction = "none"
            /\ IncreasingLinear(data, other) =>
                  /\ r = Lit(1, 1)
                  /\ res.strength = "very_strong"
                  /\ res.direction = "positive"

\* C8: for nonempty data, mode(data) returns a value of maximal frequency,
\* and among several values of that frequency the one encountered first in
\* data.
C8_FirstMostFrequent ==
    (op = "mode" /\ data /= << >>) =>
        /\ res \in Keys(data)
        /\ \A v \in Keys(data) : Frequency(data, v) <= Frequency(data, res)
        /\ \A i \in DOMAIN data :
              Frequency(data, data[i]) = Frequency(data, res) =>
                  \E j \in 1 .. i : data[j] = res

\* The number of amounts the buckets before bucket j take.
RECURSIVE BucketStart(_, _)
BucketStart(sizes, j) ==
    IF j <= 1 THEN 0 ELSE BucketStart(sizes, j - 1) + sizes[j - 1]

\* C9: monthly_totals assigns the amounts in order to consecutive buckets of
\* the given sizes and returns each bucket's sum; when the amounts run out
\* inside a bucket, that partial bucket's total is the last one and no totals
\* follow it; empty amounts or an empty bucket-size list gives an empty
\* result.
C9_StopsEarly ==
    op = "monthly_totals" =>
        IF data = << >> \/ other = << >> THEN res = << >>
        ELSE /\ Len(res) <= Len(other)
             /\ \A j \in DOMAIN res :
                   LET from == BucketStart(other, j)
                       upto == IF from + other[j] < Len(data)
                               THEN from + other[j] ELSE Len(data)
                   IN  res[j] = Accumulate(SubSeq(data, from + 1, upto), 0)
             /\ \A j \in DOMAIN other :
                   (/\ BucketStart(other, j) < Len(data)
                    /\ Len(data) < BucketStart(other, j) + other[j]) =>
                       Len(res) = j

\* C11: for nonempty data of length n and 0 < alpha <= 1,
\* exponential_moving_average returns values with values[0] = data[0] and
\* values[i] = alpha*data[i] + (1 - alpha)*values[i-1] for i in 1..n-1, and
\* current_average equal to the last value; with alpha = 1 the series is data.
C11_Recurrence ==
    (/\ op = "exponential_moving_average"
     /\ data /= << >>
     /\ arg > 0
     /\ arg <= Lit(1, 1)) =>
        /\ DOMAIN res.values = DOMAIN data
        /\ res.values[1] = data[1]
        /\ \A i \in 2 .. Len(data) :
              res.values[i] =
                  FAdd(FMul(arg, data[i]),
                       FMul(FSub(Lit(1, 1), arg), res.values[i - 1]))
        /\ res.current_average = res.values[Len(data)]
        /\ arg = Lit(1, 1) => res.values = data

C11_Witness ==
    /\ op = "exponential_moving_average"
    /\ Len(data) = MaxLen
    /\ arg = Lit(3, 10)
    /\ \A i \in 2 .. Len(data) :
          /\ data[i] /= data[i - 1]
          /\ res.values[i] /= res.values[i - 1]
          /\ res.values[i] /= data[i]
    /\ res.current_average = res.values[Len(data)]

\* C12: the window descriptor of every result of exponential_moving_average
\* is a sentinel that no result of moving_average carries, whatever the data
\* and the requested window.
C12_SentinelDistinct ==
    op = "moving_average" =>
        \A d \in { << >>, data } : \A alpha \in Alphas :
            res.window_size /= exponential_moving_average(d, alpha).window_size

\* C13: degenerate inputs are never failures: moving_average with empty data
\* or window <= 0 and exponential_moving_average with empty data or alpha
\* outside (0, 1] return an empty series with current average 0,
\* detect_outliers with fewer than 4 observations returns no index, and sum,
\* mean, median, mode, variance, stddev and calculate_all on empty data return
\* 0 or the all-zero summary.
C13_Degenerate ==
    /\ (op = "moving_average" /\ (data = << >> \/ arg <= 0)) =>
           res.values = << >> /\ res.current_average = 0
    /\ (/\ op = "exponential_moving_average"
        /\ (data = << >> \/ arg <= 0 \/ arg > Lit(1, 1))) =>
           res.values = << >> /\ res.current_average = 0
    /\ (op = "detect_outliers" /\ Len(data) < 4) => res = << >>
    /\ (/\ op \in { "sum", "mean", "median", "mode", "variance", "stddev" }
        /\ data = << >>) =>
           res = 0
    /\ (op = "calculate_all" /\ data = << >>) =>
           /\ DOMAIN res = DOMAIN ZeroStatistics
           /\ \A f \in DOMAIN res : res[f] = 0

C13_Witness ==
    /\ op = "detect_outliers"
    /\ Len(data) = 3
    /\ data[1] /= data[3]
    /\ arg < 0
    /\ res = << >>

\* C14: median(data) is taken on the ascending-sorted copy s of length n:
\* s[n/2] (integer division, zero-based) when n is odd, (s[n/2 - 1] + s[n/2])/2
\* when n is even and positive, 0 when n = 0; it does not depend on the order
\* of the elements of data.
C14_Median ==
    op = "median" =>
        LET n == Len(data)
            s == SortedCopy(data)
        IN  /\ res = IF n = 0 THEN 0
                     ELSE IF n % 2 = 1 THEN s[n \div 2 + 1]
                     ELSE FDiv(FAdd(s[n \div 2], s[n \div 2 + 1]), Lit(2, 1))
            /\ \A i, j \in DOMAIN data :
                  res = median([data EXCEPT ![i] = data[j], ![j] = data[i]])

C14_Witness ==
    /\ op = "median"
    /\ Len(data) >= 4
    /\ Len(data) % 2 = 0
    /\ data /= SortedCopy(data)
    /\ res \notin Keys(data)
    /\ res /= FDiv(FAdd(data[Len(data) \div 2], data[Len(data) \div 2 + 1]),
                   Lit(2, 1))

\* The count token of standard input parses, and so do the value tokens it
\* asks for.
AllParse ==
    /\ other /= << >>
    /\ other[1].parses
    /\ \A k \in 1 .. other[1].value :
          k + 1 <= Len(other) /\ other[k + 1].parses

\* The run ended with the error object alone on standard output, status 1.
ErrorOutcome ==
    /\ res.status = 1
    /\ Len(res.stdout) = 1
    /\ ~res.stdout[1].success
    /\ DOMAIN res.stdout[1] = { "success", "error" }

\* The run ended with status 0 and, alone on standard output, the success
\* object of calculate_all, moving_average with window min(7, N),
\* exponential_moving_average with alpha 0.3 and detect_outliers with
\* threshold 1.5 on the N values of standard input.
SuccessOutcome ==
    LET n      == other[1].value
        values == [k \in 1 .. n |-> FromInt(other[k + 1].value)]
    IN  /\ res.status = 0
        /\ Len(res.stdout) = 1
        /\ res.stdout[1].success
        /\ \E mode_val \in ModeOutcomes(values) :
              res.stdout[1] =
                  create_json_output(
                      calculate_all(values, mode_val),
                      moving_average(values,
                                     IF n < DefaultWindow THEN n
                                     ELSE DefaultWindow),
                      exponential_moving_average(values, Lit(3, 10)),
                      detect_outliers(values, Lit(3, 2)))

\* C15 as stated: a run of main without option arguments ends in one of two
\* ways: if the count N or one of the N values does not parse, the error
\* object and status 1, no success object; if N and the N values parse, one
\* success object of the four computations and status 0.
C15_Original ==
    /\ op /= "exit" => res = Running
    /\ op = "exit" => IF AllParse THEN SuccessOutcome ELSE ErrorOutcome

\* C15 as amended: a run of main without option arguments ends in one of two
\* ways: if the count N does not parse, is not positive, or one of the N
\* values does not parse, the error object and status 1, no success object;
\* if N parses and is positive and the N values parse, one success object of
\* the four computations and status 0.
C15_TwoOutcomes ==
    /\ op /= "exit" => res = Running
    /\ op = "exit" =>
          IF AllParse /\ other[1].value > 0 THEN SuccessOutcome
          ELSE ErrorOutcome

C15_Witness ==
    /\ op = "exit"
    /\ res.status = 0
    /\ arg = DefaultWindow + 1
    /\ data[1] /= data[arg]
    /\ res.stdout[1].simple_moving_average.window_size = DefaultWindow
    /\ Len(res.stdout[1].simple_moving_average.values) = 2
    /\ Len(res.stdout[1].exponential_moving_average.values) = arg
    /\ res.stdout[1].statistics.count = arg

\* C16: for nonempty data, the summary of calculate_all has
\* min <= q1 <= median <= q3 <= max, hence range >= 0 and iqr >= 0, and its
\* median equals percentile(data, 50).
C16_QuartileOrder ==
    (op = "calculate_all" /\ data /= << >>) =>
        /\ res.min <= res.q1
        /\ res.q1 <= res.median
        /\ res.median <= res.q3
        /\ res.q3 <= res.max
        /\ res.range >= 0
        /\ res.iqr >= 0
        /\ res.median = percentile(data, Lit(50, 1)).value

====
